---- MODULE Spec2Model ----
(***************************************************************************)
(* bindecoder: Decoder (byte cursor, bounded sub-readers), Viewer sinks    *)
(* (PlainViewer, DataViewer) and the QuickTime / JPEG / FLV drivers.       *)
(*                                                                         *)
(* A run is modelled in small steps.  `ctl` is the Python call stack       *)
(* restricted to what matters here: the open `with` blocks and the driver  *)
(* functions in progress.  `exc` is the exception that is propagating      *)
(* ("" when none); Unwind pops one frame per step and runs its `finally`.  *)
(***************************************************************************)
EXTENDS Integers, Sequences, FiniteSets, TLC

VARIABLES
    driver,     \* which program runs: "dec" (a caller of Decoder), "view" (a caller of Viewer), "qt", "jpg", "flv"
    dec,        \* the Decoder object: stream, pos, end, stream_stack
    view,       \* the Viewer object: kind, level (PlainViewer), heap/cur/stack (DataViewer)
    ctl,        \* control stack of frames (with-blocks and driver functions)
    exc,        \* the exception being propagated, "" when none
    status,     \* "run", "done" (returned normally), "failed" (exception left the run)
    ret,        \* value returned by the last call (bytes of a read, value of a scalar, boolean of atom())
    log,        \* every call made on the sink, in order, with its outcome
    last,       \* the Decoder/Viewer operation performed by the last step, with its arguments
    ops,        \* number of operations performed by a "dec" or "view" caller
    nextId      \* identity given to the next BytesIO object

vars == <<driver, dec, view, ctl, exc, status, ret, log, last, ops, nextId>>

----------------------------------------------------------------------------
\* Bounds of the model
MaxOps == 3         \* operations a "dec" or "view" caller performs
MaxData == 4        \* bytes in the source of a "dec" caller
MaxBody == 8        \* filler bytes in the body of a generated record
MaxTail == 7        \* bytes that follow the last generated record
MaxSeg == 3         \* bytes in the body of a generated JPEG segment or FLV tag

----------------------------------------------------------------------------
\* Python values

\* read(size=None): stream.read() behaves as stream.read(-1), and
\* len(data) < -1 never holds, so None is modelled by -1.
None == 0 - 1

NoName == [k |-> "none", i |-> 0, s |-> "", b |-> <<>>]
IntName(i) == [k |-> "int", i |-> i, s |-> "", b |-> <<>>]
StrName(s) == [k |-> "str", i |-> 0, s |-> s, b |-> <<>>]
\* a name built by a format string from an integer and/or a byte string
FmtName(s, i, b) == [k |-> "fmt", i |-> i, s |-> s, b |-> b]

\* Python truthiness of a name: None, 0 and '' are false
Truthy(name) ==
    /\ name.k # "none"
    /\ ~(name.k = "int" /\ name.i = 0)
    /\ ~(name.k = "str" /\ name.s = "")

\* name != len(cur): a str never equals an int
NameIsInt(name, n) == name.k = "int" /\ name.i = n

IntVal(i) == [t |-> "int", id |-> 0, v |-> <<i>>]
BytesVal(b) == [t |-> "bytes", id |-> 0, v |-> b]
RefVal(id) == [t |-> "ref", id |-> id, v |-> <<>>]
StrVal(str) == [t |-> str, id |-> 0, v |-> <<>>]
BoolVal(b) == [t |-> "bool", id |-> 0, v |-> <<IF b THEN 1 ELSE 0>>]
\* a string made by a format from an integer, such as '%#x' % size
FmtVal(fmt, i) == [t |-> fmt, id |-> 0, v |-> <<i>>]

Min(a, b) == IF a < b THEN a ELSE b
Max(a, b) == IF a > b THEN a ELSE b
Front(s) == SubSeq(s, 1, Len(s) - 1)
Top(s) == s[Len(s)]

----------------------------------------------------------------------------
\* Byte sources: an open binary file (BufferedReader) or a BytesIO

Stream(id, kind, data) == [id |-> id, kind |-> kind, data |-> data, off |-> 0]

Remaining(s) == IF s.off >= Len(s.data) THEN 0 ELSE Len(s.data) - s.off

\* stream.read(size): at most size bytes; everything left when size is
\* negative, except that a file rejects a negative size other than -1.
\* A short read still moves the source to its end.
stream_read(s, size) ==
    IF size < 0 - 1 /\ s.kind = "file"
    THEN [exc |-> "ValueError", data |-> <<>>, stream |-> s]
    ELSE LET n == IF size < 0 THEN Remaining(s) ELSE Min(size, Remaining(s))
         IN  [exc |-> "",
              data |-> IF n = 0 THEN <<>> ELSE SubSeq(s.data, s.off + 1, s.off + n),
              stream |-> [s EXCEPT !.off = s.off + n]]

\* stream.seek(position): a negative position is rejected
\* (ValueError by BytesIO, OSError by a file)
stream_seek(s, position) ==
    IF position < 0
    THEN [exc |-> IF s.kind = "file" THEN "OSError" ELSE "ValueError", stream |-> s]
    ELSE [exc |-> "", stream |-> [s EXCEPT !.off = position]]

----------------------------------------------------------------------------
\* struct.unpack(end + desc, bytes) for the integer formats

RECURSIVE BigEndian(_)
BigEndian(b) ==
    IF b = <<>> THEN 0 ELSE 256 * BigEndian(Front(b)) + Top(b)

Reverse(b) == [i \in 1..Len(b) |-> b[Len(b) + 1 - i]]

RECURSIVE Pow2(_)
Pow2(n) == IF n = 0 THEN 1 ELSE 2 * Pow2(n - 1)

Signed(desc) == desc \in {"b", "h", "i", "q"}

\* A signed format takes the most significant byte as a two's-complement digit
unpack(endc, desc, b) ==
    LET m == IF endc = ">" THEN b ELSE Reverse(b)
    IN  IF Signed(desc) /\ m # <<>> /\ m[1] >= 128
        THEN BigEndian([m EXCEPT ![1] = m[1] - 256])
        ELSE BigEndian(m)

----------------------------------------------------------------------------
\* Viewer sinks

PlainViewer == [kind |-> "plain", level |-> 0, heap |-> <<>>, cur |-> 0, stack |-> <<>>]

\* DataViewer: heap[id] is the dict or list object with identity id;
\* cur and stack hold identities, so a container filled through cur is
\* the one its parent refers to.
NewMap == [kind |-> "map", items |-> <<>>]
NewList == [kind |-> "list", items |-> <<>>]
DataViewer == [kind |-> "data", level |-> 0, heap |-> <<NewMap>>, cur |-> 1, stack |-> <<>>]
Viewers == {PlainViewer, DataViewer}

HasKey(c, name) == \E i \in 1..Len(c.items) : c.items[i].name = name

\* (mutant) an array accepts any index
set_any_index(V, name, value) ==
    IF V.kind = "plain"
    THEN [exc |-> "", view |-> V]
    ELSE LET c == V.heap[V.cur]
             put == [V EXCEPT !.heap[V.cur].items =
                        Append(c.items, [name |-> name, value |-> value])]
         IN  IF c.kind = "map" /\ HasKey(c, name)
             THEN [exc |-> "KeyError", view |-> V]
             ELSE [exc |-> "", view |-> put]

\* (mutant) a map overwrites the value stored under a repeated name
set_overwrite(V, name, value) ==
    IF V.kind = "plain"
    THEN [exc |-> "", view |-> V]
    ELSE LET c == V.heap[V.cur]
             put == [V EXCEPT !.heap[V.cur].items =
                        Append(c.items, [name |-> name, value |-> value])]
             over == [V EXCEPT !.heap[V.cur].items =
                        [i \in 1..Len(c.items) |->
                            IF c.items[i].name = name
                            THEN [name |-> name, value |-> value]
                            ELSE c.items[i]]]
         IN  IF c.kind = "list"
             THEN IF ~NameIsInt(name, Len(c.items))
                  THEN [exc |-> "IndexError", view |-> V]
                  ELSE [exc |-> "", view |-> put]
             ELSE [exc |-> "", view |-> IF HasKey(c, name) THEN over ELSE put]

\* DataViewer.set (blob = set); PlainViewer.set and blob only print
set(V, name, value) ==
    IF V.kind = "plain"
    THEN [exc |-> "", view |-> V]
    ELSE LET c == V.heap[V.cur]
             put == [V EXCEPT !.heap[V.cur].items =
                        Append(c.items, [name |-> name, value |-> value])]
         IN  IF c.kind = "list"
             THEN IF ~NameIsInt(name, Len(c.items))
                  THEN [exc |-> "IndexError", view |-> V]
                  ELSE [exc |-> "", view |-> put]
             ELSE IF HasKey(c, name)
                  THEN [exc |-> "KeyError", view |-> V]
                  ELSE [exc |-> "", view |-> put]

\* (mutant) the current container is pushed before the new one is attached
enter_push_first(V, name, new) ==
    IF V.kind = "plain"
    THEN [exc |-> "", view |-> [V EXCEPT !.level = V.level + 1]]
    ELSE LET id == Len(V.heap) + 1
             r == set(V, name, RefVal(id))
         IN  IF r.exc # ""
             THEN [exc |-> r.exc, view |-> [V EXCEPT !.stack = Append(V.stack, V.cur)]]
             ELSE [exc |-> "",
                   view |-> [r.view EXCEPT !.heap = Append(r.view.heap, new),
                                           !.stack = Append(V.stack, V.cur),
                                           !.cur = id]]

\* DataViewer.enter_map / enter_array: the new container is attached with
\* set before the stack is touched.  PlainViewer.enter prints and indents.
enter(V, name, new) ==
    IF V.kind = "plain"
    THEN [exc |-> "", view |-> [V EXCEPT !.level = V.level + 1]]
    ELSE LET id == Len(V.heap) + 1
             r == set(V, name, RefVal(id))
         IN  IF r.exc # ""
             THEN [exc |-> r.exc, view |-> V]
             ELSE [exc |-> "",
                   view |-> [r.view EXCEPT !.heap = Append(r.view.heap, new),
                                           !.stack = Append(V.stack, V.cur),
                                           !.cur = id]]

enter_map(V, name) == enter(V, name, NewMap)
enter_array(V, name) == enter(V, name, NewList)

\* PlainViewer.exit / DataViewer.exit (list.pop of an empty list raises IndexError)
exit(V) ==
    IF V.kind = "plain"
    THEN [exc |-> "", view |-> [V EXCEPT !.level = V.level - 1]]
    ELSE IF V.stack = <<>>
    THEN [exc |-> "IndexError", view |-> V]
    ELSE [exc |-> "", view |-> [V EXCEPT !.cur = Top(V.stack), !.stack = Front(V.stack)]]

\* One call on the sink, recorded in the log with its outcome
Call(op, name, e, data) == [op |-> op, name |-> name, exc |-> e, data |-> data]

Logged(r, L, op, name, data) ==
    [exc |-> r.exc, view |-> r.view, log |-> Append(L, Call(op, name, r.exc, data))]

\* Decoder.vset / the drivers' putv: view.set(name, value)
vset(V, L, name, value) == Logged(set(V, name, value), L, "set", name, <<>>)
vblob(V, L, name, data) == Logged(set(V, name, BytesVal(data)), L, "blob", name, data)
venter_map(V, L, name) == Logged(enter_map(V, name), L, "enter_map", name, <<>>)
venter_array(V, L, name) == Logged(enter_array(V, name), L, "enter_array", name, <<>>)
vexit(V, L) == Logged(exit(V), L, "exit", NoName, <<>>)

----------------------------------------------------------------------------
\* Decoder

Decoder(stream, big_endian) ==
    [stream |-> stream, pos |-> 0,
     end |-> IF big_endian THEN ">" ELSE "<",
     stream_stack |-> <<>>]

\* (mutant) the length check is left out: a short read is returned as it is
read_unchecked(D, size) ==
    LET r == stream_read(D.stream, size)
    IN  IF r.exc # ""
        THEN [exc |-> r.exc, data |-> <<>>, dec |-> D]
        ELSE [exc |-> "", data |-> r.data,
              dec |-> [D EXCEPT !.stream = r.stream, !.pos = D.pos + Len(r.data)]]

\* Decoder.read: the bytes are taken from the stream before the length is
\* compared with size, and pos is only advanced when the read succeeds.
read(D, size) ==
    LET got(r) ==
            IF r.exc # ""
            THEN [exc |-> r.exc, data |-> <<>>, dec |-> D]
            ELSE IF size # None /\ Len(r.data) < size
            THEN [exc |-> "EOFError", data |-> <<>>,
                  dec |-> [D EXCEPT !.stream = r.stream]]
            ELSE [exc |-> "", data |-> r.data,
                  dec |-> [D EXCEPT !.stream = r.stream, !.pos = D.pos + Len(r.data)]]
    IN  got(stream_read(D.stream, size))

\* Decoder.seek
seek(D, position) ==
    LET r == stream_seek(D.stream, position)
    IN  IF r.exc # ""
        THEN [exc |-> r.exc, dec |-> D]
        ELSE [exc |-> "", dec |-> [D EXCEPT !.stream = r.stream, !.pos = position]]

\* (mutant) the (stream, pos) pair is pushed before the bytes are read
substream_enter_push_first(D, size, id) ==
    LET r == read(D, size)
    IN  IF r.exc # ""
        THEN r
        ELSE [exc |-> "", data |-> r.data,
              dec |-> [r.dec EXCEPT
                        !.stream_stack = Append(D.stream_stack, <<r.dec.stream, D.pos>>),
                        !.stream = Stream(id, "bytesio", r.data),
                        !.pos = 0]]

\* Decoder.substream, up to the yield: read size bytes, wrap them in a
\* BytesIO, push the current (stream, pos) and switch to the new stream.
substream_enter(D, size, id) ==
    LET r == read(D, size)
    IN  IF r.exc # ""
        THEN r
        ELSE [exc |-> "", data |-> r.data,
              dec |-> [r.dec EXCEPT
                        !.stream_stack = Append(r.dec.stream_stack,
                                                <<r.dec.stream, r.dec.pos>>),
                        !.stream = Stream(id, "bytesio", r.data),
                        !.pos = 0]]

\* (mutant) the saved pair is restored but left on the stack
substream_exit_no_pop(D) ==
    [D EXCEPT !.stream = Top(D.stream_stack)[1],
              !.pos = Top(D.stream_stack)[2]]

\* Decoder.substream, the finally clause
substream_exit(D) ==
    [D EXCEPT !.stream = Top(D.stream_stack)[1],
              !.pos = Top(D.stream_stack)[2],
              !.stream_stack = Front(D.stream_stack)]

\* Decoder.scalar: read, unpack, and hand the value to the sink when a
\* (truthy) name is given.  vset is view.set.
scalar(D, V, L, name, size, desc) ==
    LET put(r, value, w) ==
            [exc |-> w.exc, value |-> value, dec |-> r.dec, view |-> w.view, log |-> w.log]
        unpacked(r, value) ==
            IF Truthy(name)
            THEN put(r, value, vset(V, L, name, IntVal(value)))
            ELSE [exc |-> "", value |-> value, dec |-> r.dec, view |-> V, log |-> L]
        got(r) ==
            IF r.exc # ""
            THEN [exc |-> r.exc, value |-> 0, dec |-> r.dec, view |-> V, log |-> L]
            ELSE unpacked(r, unpack(D.end, desc, r.data))
    IN  got(read(D, size))

----------------------------------------------------------------------------
\* Control: frames, exceptions, the finally clauses

\* kind: "substream" | "map" | "array" for an open with-block, or the name
\* of a driver function in progress with its program counter pc.
\* size, pos0, sid: for a substream block, the declared length and the
\* position and identity of the stream that was active when it was entered.
\* i, n, v: locals of a driver function.  nm: the name a sink scope was
\* entered with, or the name local of a driver function.
Frame(kind) ==
    [kind |-> kind, pc |-> "", size |-> 0, pos0 |-> 0, sid |-> 0,
     rem0 |-> 0, log0 |-> 0, i |-> 0, n |-> 0, v |-> 0, nm |-> NoName]

WithKinds == {"substream", "map", "array"}

SubstreamFrame(size) ==
    [Frame("substream") EXCEPT !.size = size, !.pos0 = dec.pos, !.sid = dec.stream.id]

ScopeFrame(kind, name) == [Frame(kind) EXCEPT !.nm = name]

\* the call of a function that decodes one record (atom, segment, tag):
\* rem0 and log0 note the bytes remaining and the length of the log at the call
RecordFrame(kind, pc) ==
    [Frame(kind) EXCEPT !.pc = pc, !.rem0 = Remaining(dec.stream), !.log0 = Len(log)]

\* What the last step did, with the cursor as it was before the step;
\* for "leave" and "unwind", name and size are those of the frame that was left
Last(op, size, name, e) ==
    [op |-> op, size |-> size, name |-> name, exc |-> e,
     pos0 |-> dec.pos, off0 |-> dec.stream.off, rem0 |-> Remaining(dec.stream),
     sid0 |-> dec.stream.id, depth0 |-> Len(dec.stream_stack)]

Running(d) == driver = d /\ status = "run" /\ exc = ""

\* The finally clause of the with-block of frame f:
\* Decoder.substream restores (stream, pos); Viewer.map / array call exit().
Finally(f, D, V, L) ==
    IF f.kind = "substream"
    THEN [exc |-> "", dec |-> substream_exit(D), view |-> V, log |-> L]
    ELSE IF f.kind \in {"map", "array"}
    THEN LET r == vexit(V, L)
         IN  [exc |-> r.exc, dec |-> D, view |-> r.view, log |-> r.log]
    ELSE [exc |-> "", dec |-> D, view |-> V, log |-> L]

\* An exception leaves the innermost frame: its finally clause runs and
\* the exception goes on to the enclosing frame.
Unwind ==
    /\ status = "run"
    /\ exc # ""
    /\ ctl # <<>>
    /\ LET r == Finally(Top(ctl), dec, view, log)
       IN  /\ dec' = r.dec
           /\ view' = r.view
           /\ log' = r.log
           /\ exc' = IF r.exc # "" THEN r.exc ELSE exc
    /\ ctl' = Front(ctl)
    /\ last' = Last("unwind", Top(ctl).size, StrName(Top(ctl).kind), exc)
    /\ UNCHANGED <<driver, status, ret, ops, nextId>>

\* The exception leaves the run
Fail ==
    /\ status = "run"
    /\ exc # ""
    /\ ctl = <<>>
    /\ status' = "failed"
    /\ last' = Last("fail", 0, NoName, exc)
    /\ UNCHANGED <<driver, dec, view, ctl, exc, ret, log, ops, nextId>>

\* Entering `with self.substream(size):`
EnterSubstream(size, frames) ==
    LET r == substream_enter(dec, size, nextId)
    IN  /\ dec' = r.dec
        /\ exc' = r.exc
        /\ ctl' = IF r.exc = "" THEN frames \o <<SubstreamFrame(size)>> ELSE frames
        /\ nextId' = IF r.exc = "" THEN nextId + 1 ELSE nextId
        /\ last' = Last("substream", size, NoName, r.exc)

\* Entering `with self.view.map(name):` / `with self.view.array(name):`
EnterScope(kind, name, frames) ==
    LET r == IF kind = "map" THEN venter_map(view, log, name)
                             ELSE venter_array(view, log, name)
    IN  /\ view' = r.view
        /\ log' = r.log
        /\ exc' = r.exc
        /\ ctl' = IF r.exc = "" THEN frames \o <<ScopeFrame(kind, name)>> ELSE frames
        /\ last' = Last(IF kind = "map" THEN "enter_map" ELSE "enter_array", 0, name, r.exc)

\* Leaving the innermost with-block normally
LeaveBlock(frames) ==
    LET r == Finally(Top(ctl), dec, view, log)
    IN  /\ Top(ctl).kind \in WithKinds
        /\ dec' = r.dec
        /\ view' = r.view
        /\ log' = r.log
        /\ exc' = r.exc
        /\ ctl' = frames
        /\ last' = Last("leave", Top(ctl).size, StrName(Top(ctl).kind), r.exc)

----------------------------------------------------------------------------
\* Steps shared by the drivers

\* the frames with the pc of the frame k below the top set to pc
SetPc(k, pc) == [ctl EXCEPT ![Len(ctl) - k].pc = pc]

\* the function in progress, k frames below the top (its with-blocks are above it)
At(k, kind, pc) ==
    /\ status = "run" /\ exc = ""
    /\ Len(ctl) > k
    /\ ctl[Len(ctl) - k].kind = kind
    /\ ctl[Len(ctl) - k].pc = pc

Fn(k) == ctl[Len(ctl) - k]

True == <<1>>
False == <<0>>

\* HexDumper(data).iter_lines(): one line per LineWidth bytes, named by its offset
LineWidth == 16
HexLines(data) ==
    [k \in 1..((Len(data) + LineWidth - 1) \div LineWidth) |->
        [name |-> FmtName("%04x", LineWidth * (k - 1), <<>>),
         dump |-> SubSeq(data, LineWidth * (k - 1) + 1, Min(Len(data), LineWidth * k))]]

HexLimit == 256

RECURSIVE putlines(_, _, _)
putlines(V, L, lines) ==
    IF lines = <<>>
    THEN [exc |-> "", view |-> V, log |-> L]
    ELSE LET r == vset(V, L, Head(lines).name, BytesVal(Head(lines).dump))
         IN  IF r.exc # "" THEN r ELSE putlines(r.view, r.log, Tail(lines))

\* hexdump(data, limit=256) of the drivers: a set per line of the first
\* limit bytes, then 'dump_size' when the data is longer
hexdump(V, L, data) ==
    LET L0 == Append(L, Call("hexdump", NoName, "", data))
        r == putlines(V, L0, HexLines(SubSeq(data, 1, Min(Len(data), HexLimit))))
    IN  IF r.exc # "" \/ Len(data) <= HexLimit
        THEN r
        ELSE vset(r.view, r.log, StrName("dump_size"), IntVal(Len(data)))

\* a function whose body is finished returns None
Return ==
    /\ status = "run" /\ exc = ""
    /\ ctl # <<>>
    /\ Top(ctl).pc = "return"
    /\ ctl' = Front(ctl)
    /\ last' = Last("return", 0, NoName, "")
    /\ UNCHANGED <<driver, dec, view, exc, status, ret, log, ops, nextId>>

----------------------------------------------------------------------------
\* QtDecoder

\* fourcc codes
Moov == <<109, 111, 111, 118>>
Trak == <<116, 114, 97, 107>>
Mdia == <<109, 100, 105, 97>>
Minf == <<109, 105, 110, 102>>
Stbl == <<115, 116, 98, 108>>
Udta == <<117, 100, 116, 97>>
Dinf == <<100, 105, 110, 102>>
Stco == <<115, 116, 99, 111>>
FreeAtom == <<102, 114, 101, 101>>

\* getattr(self, 'do_' + atype, None), for the handlers modelled here:
\* do_moov .. do_udta = atoms, do_dinf = atom_data, do_stco
Method(atype) ==
    IF atype \in {Moov, Trak, Mdia, Minf, Stbl, Udta} THEN "atoms"
    ELSE IF atype = Dinf THEN "atom_data"
    ELSE IF atype = Stco THEN "do_stco"
    ELSE ""

AtomHeader == 8

\* atoms: while self.atom(): pass
AtomsCall ==
    /\ At(0, "atoms", "call")
    /\ ctl' = SetPc(0, "test") \o <<RecordFrame("atom", "size")>>
    /\ last' = Last("call", 0, NoName, "")
    /\ UNCHANGED <<driver, dec, view, exc, status, ret, log, ops, nextId>>

AtomsTest ==
    /\ At(0, "atoms", "test")
    /\ ctl' = IF ret = True THEN SetPc(0, "call") ELSE Front(ctl)
    /\ last' = Last("test", 0, NoName, "")
    /\ UNCHANGED <<driver, dec, view, exc, status, ret, log, ops, nextId>>

\* atom: try: size = self.u4() except EOFError: return False
\*       if size == 0: return False
AtomSize ==
    /\ At(0, "atom", "size")
    /\ LET r == scalar(dec, view, log, NoName, 4, "I")
       IN  /\ dec' = r.dec
           /\ last' = Last("scalar", 4, NoName, r.exc)
           /\ IF r.exc = "EOFError" \/ (r.exc = "" /\ r.value = 0)
              THEN ctl' = Front(ctl) /\ ret' = False /\ exc' = ""
              ELSE /\ ctl' = [ctl EXCEPT ![Len(ctl)].pc = "type", ![Len(ctl)].v = r.value]
                   /\ ret' = <<r.value>>
                   /\ exc' = r.exc
    /\ UNCHANGED <<driver, view, status, log, ops, nextId>>

\* atype = self.s4(): read(4), decoded as iso-8859-1 (never fails)
AtomType ==
    /\ At(0, "atom", "type")
    /\ LET r == read(dec, 4)
       IN  /\ dec' = r.dec
           /\ exc' = r.exc
           /\ ret' = r.data
           /\ last' = Last("read", 4, NoName, r.exc)
           /\ ctl' = [ctl EXCEPT ![Len(ctl)].pc = "sub",
                                 ![Len(ctl)].nm = FmtName("'%s'", 0, r.data)]
    /\ UNCHANGED <<driver, view, status, log, ops, nextId>>

\* with self.substream(size - 8):
AtomSub ==
    /\ At(0, "atom", "sub")
    /\ EnterSubstream(Fn(0).v - AtomHeader, SetPc(0, "map"))
    /\ UNCHANGED <<driver, view, status, ret, log, ops>>

\* with self.view.map("'%s'" % atype):
AtomMap ==
    /\ At(1, "atom", "map")
    /\ EnterScope("map", Fn(1).nm, SetPc(1, "putsize"))
    /\ UNCHANGED <<driver, dec, status, ret, ops, nextId>>

\* self.putv('_size', size)
AtomPutSize ==
    /\ At(2, "atom", "putsize")
    /\ LET r == vset(view, log, StrName("_size"), IntVal(Fn(2).v))
       IN  /\ view' = r.view
           /\ log' = r.log
           /\ exc' = r.exc
           /\ last' = Last("set", 0, StrName("_size"), r.exc)
    /\ ctl' = SetPc(2, "method")
    /\ UNCHANGED <<driver, dec, status, ret, ops, nextId>>

\* method = getattr(self, 'do_'+atype, None); if method: method()
AtomMethod ==
    /\ At(2, "atom", "method")
    /\ LET method == Method(Fn(2).nm.b)
       IN  ctl' = IF method = ""
                  THEN SetPc(2, "rest")
                  ELSE SetPc(2, "rest") \o
                       <<[Frame(method) EXCEPT !.pc = IF method = "do_stco" THEN "vf" ELSE "call"]>>
    /\ last' = Last("call", 0, Fn(2).nm, "")
    /\ UNCHANGED <<driver, dec, view, exc, status, ret, log, ops, nextId>>

\* (mutant) the remainder is read and dumped only when no handler was found
AtomRest_unknown_only ==
    /\ At(2, "atom", "rest")
    /\ LET known == Method(Fn(2).nm.b) # ""
           r == IF known THEN [exc |-> "", data |-> <<>>, dec |-> dec] ELSE read(dec, None)
           h == IF r.exc = "" /\ r.data # <<>>
                THEN hexdump(view, log, r.data)
                ELSE [exc |-> r.exc, view |-> view, log |-> log]
       IN  /\ dec' = r.dec
           /\ ret' = r.data
           /\ view' = h.view
           /\ log' = h.log
           /\ exc' = h.exc
           /\ last' = Last("read", None, NoName, r.exc)
    /\ ctl' = SetPc(2, "leave_map")
    /\ UNCHANGED <<driver, status, ops, nextId>>

\* rest = self.read(); if rest: self.hexdump(rest)
AtomRest ==
    /\ At(2, "atom", "rest")
    /\ LET r == read(dec, None)
           h == IF r.exc = "" /\ r.data # <<>>
                THEN hexdump(view, log, r.data)
                ELSE [exc |-> r.exc, view |-> view, log |-> log]
       IN  /\ dec' = r.dec
           /\ ret' = r.data
           /\ view' = h.view
           /\ log' = h.log
           /\ exc' = h.exc
           /\ last' = Last("read", None, NoName, r.exc)
    /\ ctl' = SetPc(2, "leave_map")
    /\ UNCHANGED <<driver, status, ops, nextId>>

\* end of the with-blocks of atom, then return True
AtomLeaveMap ==
    /\ At(2, "atom", "leave_map")
    /\ LeaveBlock(Front(SetPc(2, "leave_sub")))
    /\ UNCHANGED <<driver, status, ret, ops, nextId>>

AtomLeaveSub ==
    /\ At(1, "atom", "leave_sub")
    /\ LeaveBlock(Front(SetPc(1, "true")))
    /\ UNCHANGED <<driver, status, ret, ops, nextId>>

AtomTrue ==
    /\ At(0, "atom", "true")
    /\ ctl' = Front(ctl)
    /\ ret' = True
    /\ last' = Last("return", 0, NoName, "")
    /\ UNCHANGED <<driver, dec, view, exc, status, log, ops, nextId>>

\* atom_data: self.atom(); self.hexdump(self.read())
AtomDataCall ==
    /\ At(0, "atom_data", "call")
    /\ ctl' = SetPc(0, "dump") \o <<RecordFrame("atom", "size")>>
    /\ last' = Last("call", 0, NoName, "")
    /\ UNCHANGED <<driver, dec, view, exc, status, ret, log, ops, nextId>>

\* self.hexdump(self.read()), as every handler that ends with it
ReadDump(k, kind, pc, next) ==
    /\ At(k, kind, pc)
    /\ LET r == read(dec, None)
           h == IF r.exc = ""
                THEN hexdump(view, log, r.data)
                ELSE [exc |-> r.exc, view |-> view, log |-> log]
       IN  /\ dec' = r.dec
           /\ ret' = r.data
           /\ view' = h.view
           /\ log' = h.log
           /\ exc' = h.exc
           /\ last' = Last("read", None, NoName, r.exc)
    /\ ctl' = SetPc(k, next)
    /\ UNCHANGED <<driver, status, ops, nextId>>

AtomDataDump == ReadDump(0, "atom_data", "dump", "return")

\* a step `x = self.u4()` etc. of a handler: the value is kept in v
ReadField(k, kind, pc, size, desc, next) ==
    /\ At(k, kind, pc)
    /\ LET r == scalar(dec, view, log, NoName, size, desc)
       IN  /\ dec' = r.dec
           /\ exc' = r.exc
           /\ ret' = <<r.value>>
           /\ last' = Last("scalar", size, NoName, r.exc)
           /\ ctl' = [SetPc(k, next) EXCEPT ![Len(ctl) - k].v = r.value]
    /\ UNCHANGED <<driver, view, status, log, ops, nextId>>

\* a step `self.putv(name, value)` of a handler
PutField(k, kind, pc, name, value, next) ==
    /\ At(k, kind, pc)
    /\ LET r == vset(view, log, name, value)
       IN  /\ view' = r.view
           /\ log' = r.log
           /\ exc' = r.exc
           /\ last' = Last("set", 0, name, r.exc)
    /\ ctl' = SetPc(k, next)
    /\ UNCHANGED <<driver, dec, status, ret, ops, nextId>>

\* a step `self.putv(name, self.u4())` of a handler
ReadPutField(k, kind, pc, name, size, desc, frames) ==
    /\ At(k, kind, pc)
    /\ LET r == scalar(dec, view, log, NoName, size, desc)
           w == IF r.exc = ""
                THEN vset(view, log, name, IntVal(r.value))
                ELSE [exc |-> r.exc, view |-> view, log |-> log]
       IN  /\ dec' = r.dec
           /\ ret' = <<r.value>>
           /\ view' = w.view
           /\ log' = w.log
           /\ exc' = w.exc
           /\ last' = Last("scalar", size, NoName, r.exc)
    /\ ctl' = frames
    /\ UNCHANGED <<driver, status, ops, nextId>>

VersionShift == 16777216    \* vf >> 24, vf & 0xffffff

\* do_stco
StcoVf == ReadField(0, "do_stco", "vf", 4, "I", "version")
StcoVersion ==
    PutField(0, "do_stco", "version", StrName("version"),
             IntVal(Fn(0).v \div VersionShift), "flags")
StcoFlags ==
    PutField(0, "do_stco", "flags", StrName("flags"),
             IntVal(Fn(0).v % VersionShift), "nent")
StcoNent ==
    /\ ReadField(0, "do_stco", "nent", 4, "I", "loop")
StcoLoop ==
    /\ At(0, "do_stco", "loop")
    /\ ctl' = IF Fn(0).i < Fn(0).v
              THEN SetPc(0, "offset")
              ELSE SetPc(0, "return")
    /\ last' = Last("test", 0, NoName, "")
    /\ UNCHANGED <<driver, dec, view, exc, status, ret, log, ops, nextId>>
StcoOffset ==
    ReadPutField(0, "do_stco", "offset", FmtName("offset[%d]", Fn(0).i, <<>>), 4, "I",
                 [ctl EXCEPT ![Len(ctl)].pc = "loop", ![Len(ctl)].i = Fn(0).i + 1])

QtStep ==
    \/ AtomsCall \/ AtomsTest
    \/ AtomSize \/ AtomType \/ AtomSub \/ AtomMap \/ AtomPutSize \/ AtomMethod
    \/ AtomRest \/ AtomLeaveMap \/ AtomLeaveSub \/ AtomTrue
    \/ AtomDataCall \/ AtomDataDump
    \/ StcoVf \/ StcoVersion \/ StcoFlags \/ StcoNent \/ StcoLoop \/ StcoOffset

\* Inputs of the QuickTime run: one or two atoms, nested at most once,
\* whose declared size is right, too small or too large, followed by
\* 0..MaxTail bytes that do not make up an atom.
U4(n) == <<0, 0, n \div 256, n % 256>>
Fill(k) == [i \in 1..k |-> i]
Zero(k) == [i \in 1..k |-> 0]
Tails == {Fill(j) : j \in 0..MaxTail} \cup {Zero(j) : j \in 0..MaxTail}

Atom(size, atype, body) == U4(size) \o atype \o body
StcoBody(n) == U4(0) \o U4(n) \o [i \in 1..(4 * n) |-> IF i % 4 = 0 THEN 7 ELSE 0]

QtDeclared(body) ==
    {0, 5, AtomHeader + Len(body) - 2, AtomHeader + Len(body), AtomHeader + Len(body) + 4}
QtLeafAtoms(types, bodies) ==
    UNION {{Atom(size, t, b) : size \in QtDeclared(b), t \in types} : b \in bodies}

QtBodies == {Fill(k) : k \in 0..MaxBody} \cup {StcoBody(n) : n \in 0..1}
QtChildren == QtLeafAtoms({FreeAtom, Stco}, {Fill(0), Fill(3), StcoBody(1)})

QtInputs ==
    QtLeafAtoms({FreeAtom, Stco, Moov}, QtBodies)
    \cup {Atom(AtomHeader + k, t, Fill(k)) \o tail :
            t \in {FreeAtom, Moov}, k \in {0, MaxBody}, tail \in Tails}
    \cup {Atom(AtomHeader + Len(c) + k, p, c \o Fill(k)) \o rest :
            c \in QtChildren, p \in {Moov, Dinf}, k \in {0, 2, 5},
            rest \in {<<>>, Atom(AtomHeader, FreeAtom, <<>>)}}
    \cup {Atom(AtomHeader, t1, <<>>) \o Atom(AtomHeader + k, t2, Fill(k)) :
            t1 \in {FreeAtom, Stco}, t2 \in {FreeAtom, Stco}, k \in {0, MaxBody}}

\* main(): QtDecoder(f, view).run() on an open binary file; run() is self.atoms()
InitQt ==
    /\ driver = "qt"
    /\ \E input \in QtInputs : dec = Decoder(Stream(0, "file", input), TRUE)
    /\ view \in Viewers
    /\ ctl = <<[Frame("atoms") EXCEPT !.pc = "call"]>>

----------------------------------------------------------------------------
\* JpgDecoder

\* marker_name.get(marker) or '%#02X' % marker
MarkerName(marker) ==
    IF marker = 192 THEN StrName("SOF0")
    ELSE IF marker = 194 THEN StrName("SOF2")
    ELSE IF marker = 196 THEN StrName("DHT")
    ELSE IF marker \in 208..215 THEN FmtName("RST%d", marker - 208, <<>>)
    ELSE IF marker = 216 THEN StrName("SOI")
    ELSE IF marker = 217 THEN StrName("EOI")
    ELSE IF marker = 218 THEN StrName("SOS")
    ELSE IF marker = 219 THEN StrName("DQT")
    ELSE IF marker = 221 THEN StrName("DRI")
    ELSE IF marker \in 224..239 THEN FmtName("APP%d", marker - 224, <<>>)
    ELSE IF marker = 254 THEN StrName("COM")
    ELSE FmtName("%#02X", marker, <<>>)

SizeField == 2

\* the branch of segment() taken for a name; the field layouts of APP0,
\* SOF0 and SOS are not modelled and their markers are not generated
SegmentBranch(name) ==
    IF name = StrName("DQT") THEN "dqt_sub"
    ELSE IF name = StrName("DHT") THEN "dht_sub"
    ELSE "else"

\* run: while self.segment(): pass
JpgRunCall ==
    /\ At(0, "jpg_run", "call")
    /\ ctl' = SetPc(0, "test") \o <<RecordFrame("segment", "ff")>>
    /\ last' = Last("call", 0, NoName, "")
    /\ UNCHANGED <<driver, dec, view, exc, status, ret, log, ops, nextId>>

JpgRunTest ==
    /\ At(0, "jpg_run", "test")
    /\ ctl' = IF ret = True THEN SetPc(0, "call") ELSE Front(ctl)
    /\ last' = Last("test", 0, NoName, "")
    /\ UNCHANGED <<driver, dec, view, exc, status, ret, log, ops, nextId>>

\* ff = self.u1(); if ff != 0xff: raise ValueError
SegFF ==
    /\ At(0, "segment", "ff")
    /\ LET r == scalar(dec, view, log, NoName, 1, "B")
       IN  /\ dec' = r.dec
           /\ ret' = <<r.value>>
           /\ last' = Last("scalar", 1, NoName, r.exc)
           /\ exc' = IF r.exc # "" THEN r.exc
                     ELSE IF r.value # 255 THEN "ValueError" ELSE ""
    /\ ctl' = SetPc(0, "marker")
    /\ UNCHANGED <<driver, view, status, log, ops, nextId>>

\* marker = self.u1(); name = ...; if 0xD0 <= marker <= 0xD9: pass
SegMarker ==
    /\ At(0, "segment", "marker")
    /\ LET r == scalar(dec, view, log, NoName, 1, "B")
       IN  /\ dec' = r.dec
           /\ exc' = r.exc
           /\ ret' = <<r.value>>
           /\ last' = Last("scalar", 1, NoName, r.exc)
           /\ ctl' = [ctl EXCEPT ![Len(ctl)].v = r.value,
                                 ![Len(ctl)].nm = MarkerName(r.value),
                                 ![Len(ctl)].pc = IF r.value \in 208..217 THEN "true" ELSE "size"]
    /\ UNCHANGED <<driver, view, status, log, ops, nextId>>

\* size = self.u2()
SegSize ==
    /\ At(0, "segment", "size")
    /\ LET r == scalar(dec, view, log, NoName, 2, "H")
       IN  /\ dec' = r.dec
           /\ exc' = r.exc
           /\ ret' = <<r.value>>
           /\ last' = Last("scalar", 2, NoName, r.exc)
           /\ ctl' = [ctl EXCEPT ![Len(ctl)].n = r.value, ![Len(ctl)].pc = "map"]
    /\ UNCHANGED <<driver, view, status, log, ops, nextId>>

\* with self.view.map(name):
SegMap ==
    /\ At(0, "segment", "map")
    /\ EnterScope("map", Fn(0).nm, SetPc(0, "putsize"))
    /\ UNCHANGED <<driver, dec, status, ret, ops, nextId>>

\* self.vset('_size', '%#x' % size), then the branch on name
SegPutSize ==
    PutField(1, "segment", "putsize", StrName("_size"), FmtVal("%#x", Fn(1).n),
             SegmentBranch(Fn(1).nm))

\* DQT: with self.substream(size - 2):
SegDqtSub ==
    /\ At(1, "segment", "dqt_sub")
    /\ EnterSubstream(Fn(1).n - SizeField, SetPc(1, "dqt_qt"))
    /\ UNCHANGED <<driver, view, status, ret, log, ops>>

SegDqtQt == ReadField(2, "segment", "dqt_qt", 1, "B", "dqt_num")
SegDqtNum ==
    PutField(2, "segment", "dqt_num", StrName("qt_number"), IntVal(Fn(2).v % 16), "dqt_prec")
SegDqtPrec ==
    PutField(2, "segment", "dqt_prec", StrName("precision"),
             IntVal(8 * Pow2(Fn(2).v \div 16)), "dump")

\* DHT: with self.substream(size - 2):
SegDhtSub ==
    /\ At(1, "segment", "dht_sub")
    /\ EnterSubstream(Fn(1).n - SizeField, SetPc(1, "dht_ht"))
    /\ UNCHANGED <<driver, view, status, ret, log, ops>>

SegDhtHt == ReadField(2, "segment", "dht_ht", 1, "B", "dht_nht")
SegDhtNht ==
    PutField(2, "segment", "dht_nht", StrName("nht"), IntVal(Fn(2).v % 16), "dht_type")
SegDhtType ==
    PutField(2, "segment", "dht_type", StrName("type"),
             StrVal(IF (Fn(2).v \div 16) % 2 = 1 THEN "AC" ELSE "DC"), "dht_array")

\* n = 0; with self.view.array('nsym'):
SegDhtArray ==
    /\ At(2, "segment", "dht_array")
    /\ EnterScope("array", StrName("nsym"),
                  [ctl EXCEPT ![Len(ctl) - 2].pc = "dht_loop",
                              ![Len(ctl) - 2].n = 0,
                              ![Len(ctl) - 2].i = 0])
    /\ UNCHANGED <<driver, dec, status, ret, ops, nextId>>

DhtCounts == 16

\* for i in range(16):
SegDhtLoop ==
    /\ At(3, "segment", "dht_loop")
    /\ ctl' = IF Fn(3).i < DhtCounts THEN SetPc(3, "dht_nsym") ELSE SetPc(3, "dht_leave")
    /\ last' = Last("test", 0, NoName, "")
    /\ UNCHANGED <<driver, dec, view, exc, status, ret, log, ops, nextId>>

\* nsym = self.u1(); self.vset(i+1, nsym); n += nsym
SegDhtNsym ==
    /\ At(3, "segment", "dht_nsym")
    /\ LET r == scalar(dec, view, log, NoName, 1, "B")
           w == IF r.exc = ""
                THEN vset(view, log, IntName(Fn(3).i + 1), IntVal(r.value))
                ELSE [exc |-> r.exc, view |-> view, log |-> log]
       IN  /\ dec' = r.dec
           /\ ret' = <<r.value>>
           /\ view' = w.view
           /\ log' = w.log
           /\ exc' = w.exc
           /\ last' = Last("scalar", 1, NoName, r.exc)
           /\ ctl' = [ctl EXCEPT ![Len(ctl) - 3].pc = "dht_loop",
                                 ![Len(ctl) - 3].i = Fn(3).i + 1,
                                 ![Len(ctl) - 3].n = IF w.exc = "" THEN Fn(3).n + r.value
                                                                  ELSE Fn(3).n]
    /\ UNCHANGED <<driver, status, ops, nextId>>

SegDhtLeaveArray ==
    /\ At(3, "segment", "dht_leave")
    /\ LeaveBlock(Front(SetPc(3, "dht_tot")))
    /\ UNCHANGED <<driver, status, ret, ops, nextId>>

\* self.vset('_totsym', n); for i in range(n): pass
SegDhtTotsym ==
    PutField(2, "segment", "dht_tot", StrName("_totsym"), IntVal(Fn(2).n), "dump")

\* self.hexdump(self.read()) at the end of a substream branch
SegDump == ReadDump(2, "segment", "dump", "leave_sub")

SegLeaveSub ==
    /\ At(2, "segment", "leave_sub")
    /\ LeaveBlock(Front(SetPc(2, "leave_map")))
    /\ UNCHANGED <<driver, status, ret, ops, nextId>>

\* else: self.hexdump(self.read(size - 2))
SegElse ==
    /\ At(1, "segment", "else")
    /\ LET r == read(dec, Fn(1).n - SizeField)
           h == IF r.exc = ""
                THEN hexdump(view, log, r.data)
                ELSE [exc |-> r.exc, view |-> view, log |-> log]
       IN  /\ dec' = r.dec
           /\ ret' = r.data
           /\ view' = h.view
           /\ log' = h.log
           /\ exc' = h.exc
           /\ last' = Last("read", Fn(1).n - SizeField, NoName, r.exc)
    /\ ctl' = SetPc(1, "leave_map")
    /\ UNCHANGED <<driver, status, ops, nextId>>

SegLeaveMap ==
    /\ At(1, "segment", "leave_map")
    /\ LeaveBlock(Front(SetPc(1, "true")))
    /\ UNCHANGED <<driver, status, ret, ops, nextId>>

\* return True
SegTrue ==
    /\ At(0, "segment", "true")
    /\ ctl' = Front(ctl)
    /\ ret' = True
    /\ last' = Last("return", 0, NoName, "")
    /\ UNCHANGED <<driver, dec, view, exc, status, log, ops, nextId>>

JpgStep ==
    \/ JpgRunCall \/ JpgRunTest
    \/ SegFF \/ SegMarker \/ SegSize \/ SegMap \/ SegPutSize
    \/ SegDqtSub \/ SegDqtQt \/ SegDqtNum \/ SegDqtPrec \/ SegDump \/ SegLeaveSub
    \/ SegDhtSub \/ SegDhtHt \/ SegDhtNht \/ SegDhtType \/ SegDhtArray
    \/ SegDhtLoop \/ SegDhtNsym \/ SegDhtLeaveArray \/ SegDhtTotsym
    \/ SegElse \/ SegLeaveMap \/ SegTrue

\* Inputs of the JPEG run: an optional SOI, a segment with a right, too
\* small or too large declared size, an optional EOI and trailing bytes
U2(n) == <<n \div 256, n % 256>>
Segment(marker, size, body) == <<255, marker>> \o U2(size) \o body
JpgMarkers == {219, 225, 254, 1}
JpgSegments ==
    UNION {{Segment(m, size, Fill(k)) :
                m \in JpgMarkers, size \in {0, 1, SizeField + k, SizeField + k + 3}} :
           k \in 0..MaxSeg}
\* a DHT segment: the table class and number, 16 counts, the symbols
Dht(ht, symbols) ==
    Segment(196, SizeField + 1 + DhtCounts + Len(symbols),
            <<ht, Len(symbols)>> \o Zero(DhtCounts - 1) \o symbols)
JpgInputs ==
    {soi \o seg \o eoi \o t :
        soi \in {<<>>, <<255, 216>>}, seg \in JpgSegments,
        eoi \in {<<>>, <<255, 217>>}, t \in {<<>>, <<7>>}}
    \cup {<<255, 216>> \o Dht(ht, symbols) \o eoi :
            ht \in {0, 17}, symbols \in {<<>>, <<5>>}, eoi \in {<<>>, <<255, 217>>}}

\* main(): JpgDecoder(f, view).run() on an open binary file
InitJpg ==
    /\ driver = "jpg"
    /\ \E input \in JpgInputs : dec = Decoder(Stream(0, "file", input), TRUE)
    /\ view \in Viewers
    /\ ctl = <<[Frame("jpg_run") EXCEPT !.pc = "call"]>>

----------------------------------------------------------------------------
\* FLVDecoder

RECURSIVE BitAnd(_, _)
BitAnd(a, b) ==
    IF a = 0 \/ b = 0 THEN 0
    ELSE 2 * BitAnd(a \div 2, b \div 2) + (IF a % 2 = 1 /\ b % 2 = 1 THEN 1 ELSE 0)

\* ui24: hi = self.u1(); lo = self.u2(); (hi << 16) | lo
ui24(D) ==
    LET hi == read(D, 1)
    IN  IF hi.exc # ""
        THEN [exc |-> hi.exc, value |-> 0, dec |-> hi.dec]
        ELSE LET lo == read(hi.dec, 2)
             IN  IF lo.exc # ""
                 THEN [exc |-> lo.exc, value |-> 0, dec |-> lo.dec]
                 ELSE [exc |-> "", dec |-> lo.dec,
                       value |-> 65536 * unpack(D.end, "B", hi.data)
                                 + unpack(D.end, "H", lo.data)]

FlvSignature == <<70, 76, 86>>
TypeFlagsReserved == 250    \* 0b11111010
AudioFlag == 4
VideoFlag == 1
TagAudio == 8
TagVideo == 9
TagScript == 18

\* sig = self.read(3); if sig != b'FLV': raise ValueError
FlvSig ==
    /\ At(0, "flv_run", "sig")
    /\ LET r == read(dec, 3)
       IN  /\ dec' = r.dec
           /\ ret' = r.data
           /\ last' = Last("read", 3, NoName, r.exc)
           /\ exc' = IF r.exc # "" THEN r.exc
                     ELSE IF r.data # FlvSignature THEN "ValueError" ELSE ""
    /\ ctl' = SetPc(0, "version")
    /\ UNCHANGED <<driver, view, status, log, ops, nextId>>

FlvVersion ==
    ReadPutField(0, "flv_run", "version", StrName("Version"), 1, "B", SetPc(0, "tf"))

\* tf = self.u1(); assert (tf & 0b11111010) == 0
FlvTypeFlags ==
    /\ At(0, "flv_run", "tf")
    /\ LET r == scalar(dec, view, log, NoName, 1, "B")
       IN  /\ dec' = r.dec
           /\ ret' = <<r.value>>
           /\ last' = Last("scalar", 1, NoName, r.exc)
           /\ exc' = IF r.exc # "" THEN r.exc
                     ELSE IF BitAnd(r.value, TypeFlagsReserved) # 0 THEN "AssertionError"
                     ELSE ""
           /\ ctl' = [ctl EXCEPT ![Len(ctl)].v = r.value, ![Len(ctl)].pc = "audio"]
    /\ UNCHANGED <<driver, view, status, log, ops, nextId>>

FlvAudio ==
    PutField(0, "flv_run", "audio", StrName("AudioTags"),
             BoolVal(BitAnd(Fn(0).v, AudioFlag) # 0), "video")
FlvVideo ==
    PutField(0, "flv_run", "video", StrName("VideoTags"),
             BoolVal(BitAnd(Fn(0).v, VideoFlag) # 0), "doff")
FlvDoff == ReadField(0, "flv_run", "doff", 4, "I", "putdoff")
FlvPutDoff ==
    PutField(0, "flv_run", "putdoff", StrName("DataOffset"), IntVal(Fn(0).v), "skip")

\* self.read(doff - self.pos)
FlvSkip ==
    /\ At(0, "flv_run", "skip")
    /\ LET r == read(dec, Fn(0).v - dec.pos)
       IN  /\ dec' = r.dec
           /\ exc' = r.exc
           /\ ret' = r.data
           /\ last' = Last("read", Fn(0).v - dec.pos, NoName, r.exc)
    /\ ctl' = SetPc(0, "array")
    /\ UNCHANGED <<driver, view, status, log, ops, nextId>>

\* with self.view.array('Tag'): i = 0
FlvArray ==
    /\ At(0, "flv_run", "array")
    /\ EnterScope("array", StrName("Tag"), SetPc(0, "loop"))
    /\ UNCHANGED <<driver, dec, status, ret, ops, nextId>>

\* while True: with self.view.map(i):
FlvLoopMap ==
    /\ At(1, "flv_run", "loop")
    /\ EnterScope("map", IntName(Fn(1).i), SetPc(1, "prev"))
    /\ UNCHANGED <<driver, dec, status, ret, ops, nextId>>

FlvPrev ==
    ReadPutField(2, "flv_run", "prev", StrName("PreviousTagSize"), 4, "I", SetPc(2, "call"))

\* self.tag()
FlvCallTag ==
    /\ At(2, "flv_run", "call")
    /\ ctl' = SetPc(2, "leave") \o <<RecordFrame("tag", "tagtype")>>
    /\ last' = Last("call", 0, NoName, "")
    /\ UNCHANGED <<driver, dec, view, exc, status, ret, log, ops, nextId>>

\* end of `with self.view.map(i)`; i += 1
FlvLeaveMap ==
    /\ At(2, "flv_run", "leave")
    /\ LeaveBlock(Front([ctl EXCEPT ![Len(ctl) - 2].pc = "loop",
                                    ![Len(ctl) - 2].i = Fn(2).i + 1]))
    /\ UNCHANGED <<driver, status, ret, ops, nextId>>

\* tag: tagtype = self.u1()
TagType == ReadField(0, "tag", "tagtype", 1, "B", "puttype")
TagPutType ==
    PutField(0, "tag", "puttype", StrName("TagType"),
             IF Fn(0).v = TagAudio THEN StrVal("audio")
             ELSE IF Fn(0).v = TagVideo THEN StrVal("video")
             ELSE IF Fn(0).v = TagScript THEN StrVal("script data")
             ELSE IntVal(Fn(0).v),
             "dsize")

\* dsize = self.ui24()
TagDsize ==
    /\ At(0, "tag", "dsize")
    /\ LET r == ui24(dec)
       IN  /\ dec' = r.dec
           /\ exc' = r.exc
           /\ ret' = <<r.value>>
           /\ last' = Last("ui24", 3, NoName, r.exc)
           /\ ctl' = [ctl EXCEPT ![Len(ctl)].n = r.value, ![Len(ctl)].pc = "putdsize"]
    /\ UNCHANGED <<driver, view, status, log, ops, nextId>>

TagPutDsize ==
    PutField(0, "tag", "putdsize", StrName("DataSize"), IntVal(Fn(0).n), "timestamp")

\* self.putv(name, self.ui24())
PutUi24(pc, name, next) ==
    /\ At(0, "tag", pc)
    /\ LET r == ui24(dec)
           w == IF r.exc = ""
                THEN vset(view, log, name, IntVal(r.value))
                ELSE [exc |-> r.exc, view |-> view, log |-> log]
       IN  /\ dec' = r.dec
           /\ ret' = <<r.value>>
           /\ view' = w.view
           /\ log' = w.log
           /\ exc' = w.exc
           /\ last' = Last("ui24", 3, NoName, r.exc)
    /\ ctl' = SetPc(0, next)
    /\ UNCHANGED <<driver, status, ops, nextId>>

TagTimestamp == PutUi24("timestamp", StrName("Timestamp"), "tsext")
TagTimestampExtended ==
    ReadPutField(0, "tag", "tsext", StrName("TimestampExtended"), 1, "B", SetPc(0, "streamid"))
TagStreamID == PutUi24("streamid", StrName("StreamID"), "sub")

\* with self.substream(dsize):
TagSub ==
    /\ At(0, "tag", "sub")
    /\ EnterSubstream(Fn(0).n, SetPc(0, "body"))
    /\ UNCHANGED <<driver, view, status, ret, log, ops>>

\* if tagtype == 18: self.script_data() elif tagtype == 9: self.video_data()
\* (script_data is not modelled and tag type 18 is not generated)
TagBody ==
    /\ At(1, "tag", "body")
    /\ ctl' = IF Fn(1).v = TagVideo
              THEN SetPc(1, "dump") \o <<[Frame("video_data") EXCEPT !.pc = "map"]>>
              ELSE SetPc(1, "dump")
    /\ last' = Last("call", 0, NoName, "")
    /\ UNCHANGED <<driver, dec, view, exc, status, ret, log, ops, nextId>>

\* self.hexdump(self.read())
TagDump == ReadDump(1, "tag", "dump", "leave_sub")

TagLeaveSub ==
    /\ At(1, "tag", "leave_sub")
    /\ LeaveBlock(Front(SetPc(1, "return")))
    /\ UNCHANGED <<driver, status, ret, ops, nextId>>

\* video_data: with self.view.map('VideoData'):
VideoMap ==
    /\ At(0, "video_data", "map")
    /\ EnterScope("map", StrName("VideoData"), SetPc(0, "tid"))
    /\ UNCHANGED <<driver, dec, status, ret, ops, nextId>>

VideoTid == ReadField(1, "video_data", "tid", 1, "B", "frametype")
\* frametype_map.get(ftype, ftype), codecid_map.get(codecid, codecid)
VideoFrameType ==
    PutField(1, "video_data", "frametype", StrName("FrameType"),
             FmtVal("frametype", Fn(1).v \div 16), "codecid")
VideoCodecID ==
    PutField(1, "video_data", "codecid", StrName("CodecID"),
             FmtVal("codecid", Fn(1).v % 16), "leave_map")
VideoLeaveMap ==
    /\ At(1, "video_data", "leave_map")
    /\ LeaveBlock(Front(SetPc(1, "return")))
    /\ UNCHANGED <<driver, status, ret, ops, nextId>>

FlvStep ==
    \/ FlvSig \/ FlvVersion \/ FlvTypeFlags \/ FlvAudio \/ FlvVideo
    \/ FlvDoff \/ FlvPutDoff \/ FlvSkip \/ FlvArray
    \/ FlvLoopMap \/ FlvPrev \/ FlvCallTag \/ FlvLeaveMap
    \/ TagType \/ TagPutType \/ TagDsize \/ TagPutDsize
    \/ TagTimestamp \/ TagTimestampExtended \/ TagStreamID
    \/ TagSub \/ TagBody \/ TagDump \/ TagLeaveSub
    \/ VideoMap \/ VideoTid \/ VideoFrameType \/ VideoCodecID \/ VideoLeaveMap

\* Inputs of the FLV run: a header, one or two tags whose DataSize is
\* right, too small or too large, and trailing bytes
U3(n) == <<0, n \div 256, n % 256>>
FlvHeader(sig, tf, doff) == sig \o <<1, tf>> \o U4(doff)
FlvHeaderLen == Len(FlvHeader(FlvSignature, 0, 0))
FlvTag(tagtype, dsize, body) ==
    U4(0) \o <<tagtype>> \o U3(dsize) \o U3(5) \o <<0>> \o U3(0) \o body
FlvHeaders ==
    {FlvHeader(FlvSignature, 5, FlvHeaderLen), FlvHeader(FlvSignature, 5, FlvHeaderLen + 2) \o <<0, 0>>,
     FlvHeader(FlvSignature, 5, FlvHeaderLen - 1), FlvHeader(FlvSignature, 2, FlvHeaderLen),
     FlvHeader(<<70, 76, 88>>, 5, FlvHeaderLen), SubSeq(FlvHeader(FlvSignature, 5, FlvHeaderLen), 1, 7)}
FlvTags ==
    UNION {{FlvTag(t, dsize, Fill(k)) :
                t \in {TagAudio, TagVideo, 1}, dsize \in {k, k + 3} \cup {j \in {k - 1} : j >= 0}} :
           k \in 0..MaxSeg}
FlvInputs ==
    {h \o t1 \o t2 \o tail :
        h \in FlvHeaders, t1 \in FlvTags,
        t2 \in {<<>>, FlvTag(TagVideo, 1, <<33>>)}, tail \in {<<>>, <<7, 7>>}}

\* main(): FLVDecoder(f, view).run() on an open binary file
InitFlv ==
    /\ driver = "flv"
    /\ \E input \in FlvInputs : dec = Decoder(Stream(0, "file", input), TRUE)
    /\ view \in Viewers
    /\ ctl = <<[Frame("flv_run") EXCEPT !.pc = "sig"]>>

----------------------------------------------------------------------------
\* A caller of Decoder ("dec") and a caller of Viewer ("view"): any
\* sequence of at most MaxOps operations, blocks properly nested.

Data == [i \in 1..MaxData |-> i]
ReadSizes == {0 - 2, None, 0, 1, MaxData + 1}
SubSizes == {0 - 2, 0, 2, MaxData + 1}
SeekPositions == {0 - 1, 1, MaxData + 2}
TypedReaders == {<<1, "b">>, <<2, "H">>, <<4, "I">>}
ScalarNames == {NoName, StrName("a")}
Names == {IntName(0), IntName(1), StrName("a")}

DecRead(size) ==
    /\ Running("dec") /\ ops < MaxOps
    /\ LET r == read(dec, size)
       IN  /\ dec' = r.dec
           /\ exc' = r.exc
           /\ ret' = r.data
           /\ last' = Last("read", size, NoName, r.exc)
    /\ ops' = ops + 1
    /\ UNCHANGED <<driver, view, ctl, status, log, nextId>>

DecScalar(name, size, desc) ==
    /\ Running("dec") /\ ops < MaxOps
    /\ LET r == scalar(dec, view, log, name, size, desc)
       IN  /\ dec' = r.dec
           /\ view' = r.view
           /\ log' = r.log
           /\ exc' = r.exc
           /\ ret' = <<r.value>>
           /\ last' = Last("scalar", size, name, r.exc)
    /\ ops' = ops + 1
    /\ UNCHANGED <<driver, ctl, status, nextId>>

DecSeek(position) ==
    /\ Running("dec") /\ ops < MaxOps
    /\ LET r == seek(dec, position)
       IN  /\ dec' = r.dec
           /\ exc' = r.exc
           /\ last' = Last("seek", position, NoName, r.exc)
    /\ ops' = ops + 1
    /\ UNCHANGED <<driver, view, ctl, status, ret, log, nextId>>

DecSubstream(size) ==
    /\ Running("dec") /\ ops < MaxOps
    /\ EnterSubstream(size, ctl)
    /\ ops' = ops + 1
    /\ UNCHANGED <<driver, view, status, ret, log>>

ViewScope(kind, name) ==
    /\ Running("view") /\ ops < MaxOps
    /\ EnterScope(kind, name, ctl)
    /\ ops' = ops + 1
    /\ UNCHANGED <<driver, dec, status, ret, nextId>>

ViewSet(name) ==
    /\ Running("view") /\ ops < MaxOps
    /\ LET r == vset(view, log, name, IntVal(ops))
       IN  /\ view' = r.view
           /\ log' = r.log
           /\ exc' = r.exc
           /\ last' = Last("set", 0, name, r.exc)
    /\ ops' = ops + 1
    /\ UNCHANGED <<driver, dec, ctl, status, ret, nextId>>

ViewBlob(name) ==
    /\ Running("view") /\ ops < MaxOps
    /\ LET r == vblob(view, log, name, <<ops>>)
       IN  /\ view' = r.view
           /\ log' = r.log
           /\ exc' = r.exc
           /\ last' = Last("blob", 0, name, r.exc)
    /\ ops' = ops + 1
    /\ UNCHANGED <<driver, dec, ctl, status, ret, nextId>>

\* the end of a with-block of the caller is reached
CallerLeave ==
    /\ driver \in {"dec", "view"} /\ status = "run" /\ exc = ""
    /\ ctl # <<>>
    /\ LeaveBlock(Front(ctl))
    /\ UNCHANGED <<driver, status, ret, ops, nextId>>

\* the caller's own code raises
CallerRaise ==
    /\ driver \in {"dec", "view"} /\ status = "run" /\ exc = ""
    /\ ops < MaxOps
    /\ exc' = "ValueError"
    /\ last' = Last("raise", 0, NoName, "ValueError")
    /\ ops' = ops + 1
    /\ UNCHANGED <<driver, dec, view, ctl, status, ret, log, nextId>>

\* the caller catches the exception at the current block level
\* (as QtDecoder.atom does with the EOFError of u4)
CallerCatch ==
    /\ driver \in {"dec", "view"} /\ status = "run" /\ exc # ""
    /\ exc' = ""
    /\ last' = Last("catch", 0, NoName, exc)
    /\ UNCHANGED <<driver, dec, view, ctl, status, ret, log, ops, nextId>>

\* the run returns normally
Done ==
    /\ status = "run" /\ exc = ""
    /\ ctl = <<>>
    /\ status' = "done"
    /\ last' = Last("return", 0, NoName, "")
    /\ UNCHANGED <<driver, dec, view, ctl, exc, ret, log, ops, nextId>>

InitCommon ==
    /\ exc = ""
    /\ status = "run"
    /\ ret = <<>>
    /\ log = <<>>
    /\ ops = 0
    /\ nextId = 1
    /\ last = Last("init", 0, NoName, "")

InitDec ==
    /\ driver = "dec"
    /\ \E kind \in {"file", "bytesio"}, big \in BOOLEAN :
          dec = Decoder(Stream(0, kind, Data), big)
    /\ view \in Viewers
    /\ ctl = <<>>

InitView ==
    /\ driver = "view"
    /\ dec = Decoder(Stream(0, "file", <<>>), TRUE)
    /\ view \in Viewers
    /\ ctl = <<>>

Init == (InitDec \/ InitView \/ InitQt \/ InitJpg \/ InitFlv) /\ InitCommon

Next ==
    \/ \E size \in ReadSizes : DecRead(size)
    \/ \E name \in ScalarNames, t \in TypedReaders : DecScalar(name, t[1], t[2])
    \/ \E position \in SeekPositions : DecSeek(position)
    \/ \E size \in SubSizes : DecSubstream(size)
    \/ \E kind \in {"map", "array"}, name \in Names : ViewScope(kind, name)
    \/ \E name \in Names : ViewSet(name)
    \/ \E name \in Names : ViewBlob(name)
    \/ CallerLeave
    \/ CallerRaise
    \/ CallerCatch
    \/ QtStep
    \/ JpgStep
    \/ FlvStep
    \/ Return
    \/ Done
    \/ Unwind
    \/ Fail

Spec == Init /\ [][Next]_vars

----------------------------------------------------------------------------
\* Properties

Ended == status \in {"done", "failed"}
Closed(kind) ==
    /\ ctl # <<>>
    /\ Top(ctl).kind = kind
    /\ Len(ctl') = Len(ctl) - 1
OpenBlocks(kinds) == Cardinality({i \in 1..Len(ctl) : ctl[i].kind \in kinds})
Calls(ops_, ok) ==
    Cardinality({i \in 1..Len(log) : log[i].op \in ops_ /\ (ok => log[i].exc = "")})
EnterOps == {"enter_map", "enter_array"}
SetOps == {"set", "blob", "enter_map", "enter_array"}
\* the step made exactly one call on the sink, a set, blob or enter
OneCall == Len(log') = Len(log) + 1 /\ Top(log').op \in SetOps
CurIs(kind) == view.kind = "data" /\ view.heap[view.cur].kind = kind
CurItems == view.heap[view.cur].items

\* C1: when a substream(L) block with L >= 0 ends, normally or by an
\* exception, the position of the restored parent cursor is L more than it
\* was before the block was entered, whatever the block consumed.
C1_ParentAdvancesByLength ==
    [][(Closed("substream") /\ Top(ctl).size >= 0)
        => dec'.pos = Top(ctl).pos0 + Top(ctl).size]_vars

\* a block of 2 bytes left by an exception after 1 byte was consumed in it
C1_Witness ==
    /\ last.op = "unwind" /\ last.name = StrName("substream")
    /\ last.size = 2 /\ last.pos0 = 1 /\ last.off0 = 1

\* C2: stream_stack is as deep as the number of open substream blocks, and
\* every exit of a block, normal or by exception, reactivates the stream that
\* was active at its entry by popping the pair saved last; when the run has
\* ended the stack is empty and the original source is active.
C2_ScopeStackLifo ==
    /\ [](Len(dec.stream_stack) = OpenBlocks({"substream"}))
    /\ [](Ended => dec.stream_stack = <<>> /\ dec.stream.id = 0)
    /\ [][Closed("substream")
            => /\ dec'.stream.id = Top(ctl).sid
               /\ <<dec'.stream, dec'.pos>> = Top(dec.stream_stack)
               /\ dec'.stream_stack = Front(dec.stream_stack)]_vars

\* a failure two blocks deep has propagated to the top
C2_Witness ==
    /\ status = "failed"
    /\ last.op = "fail"
    /\ nextId >= 3
    /\ dec.stream.id = 0

\* C3 as stated: when the run has ended, as many enter_map / enter_array
\* calls were made on the sink as exit calls.
C3_Original ==
    Ended => Calls(EnterOps, FALSE) = Calls({"exit"}, FALSE)

\* C3 amended: the enter calls that returned are as many as the exit calls
\* plus the scopes still open, in every state; an enter call that raised
\* is followed by no exit; when the run has ended the container stack of
\* the tree sink is empty and the indent level of the text sink is 0.
C3_EnterExitPaired ==
    /\ Calls(EnterOps, TRUE) = Calls({"exit"}, FALSE) + OpenBlocks({"map", "array"})
    /\ Calls({"exit"}, TRUE) = Calls({"exit"}, FALSE)
    /\ Len(view.stack) = (IF view.kind = "data" THEN OpenBlocks({"map", "array"}) ELSE 0)
    /\ view.level = (IF view.kind = "plain" THEN OpenBlocks({"map", "array"}) ELSE 0)
    /\ Ended => view.stack = <<>> /\ view.level = 0

\* a run that failed in the sink while entering a scope inside another scope
C3_Witness ==
    /\ status = "failed"
    /\ Calls(EnterOps, TRUE) >= 1
    /\ Calls(EnterOps, FALSE) > Calls(EnterOps, TRUE)

\* C4: for a byte count n >= 0, read(n) returns exactly n bytes and
\* advances pos by n when at least n bytes remain, and otherwise raises
\* EOFError and returns nothing; a typed reader raises EOFError under the
\* same condition and then makes no call on the sink.
C4_ReadTwoOutcomes ==
    [][/\ (last'.op = "read" /\ last'.size >= 0)
            => IF last'.rem0 >= last'.size
               THEN /\ last'.exc = ""
                    /\ Len(ret') = last'.size
                    /\ dec'.pos = last'.pos0 + last'.size
               ELSE /\ last'.exc = "EOFError"
                    /\ ret' = <<>>
       /\ last'.op = "scalar"
            => IF last'.rem0 >= last'.size
               THEN /\ last'.exc # "EOFError"
                    /\ dec'.pos = last'.pos0 + last'.size
               ELSE /\ last'.exc = "EOFError"
                    /\ log' = log /\ view' = view]_vars

\* a typed reader with a name failed for lack of bytes
C4_Witness ==
    /\ last.op = "scalar" /\ last.exc = "EOFError"
    /\ Truthy(last.name)
    /\ last.rem0 > 0

\* C5: in the tree sink every array holds the indices 0, 1, 2, ... in
\* order; a set / blob / enter call in an array scope appends when its
\* name is the array's length and otherwise raises IndexError and changes
\* nothing in the sink.
C5_ArrayIndices ==
    /\ [](view.kind = "data" =>
            \A c \in 1..Len(view.heap) : view.heap[c].kind = "list" =>
                \A i \in 1..Len(view.heap[c].items) :
                    view.heap[c].items[i].name = IntName(i - 1))
    /\ [][(OneCall /\ CurIs("list"))
            => IF NameIsInt(Top(log').name, Len(CurItems))
               THEN /\ Top(log').exc = ""
                    /\ Len(view'.heap[view.cur].items) = Len(CurItems) + 1
                    /\ Top(view'.heap[view.cur].items).name = Top(log').name
                    /\ SubSeq(view'.heap[view.cur].items, 1, Len(CurItems)) = CurItems
               ELSE /\ Top(log').exc = "IndexError"
                    /\ view' = view]_vars

\* a call in a non-empty array was refused
C5_Witness ==
    /\ log # <<>> /\ Top(log).exc = "IndexError" /\ Top(log).op \in SetOps
    /\ CurIs("list") /\ Len(CurItems) >= 1

\* C6: in the tree sink no map holds a name twice; a set / blob / enter
\* call in a map scope that repeats a name raises KeyError and changes
\* nothing in the sink (value stored, container stack, current container),
\* and a new name is added after the others.
C6_MapKeysUnique ==
    /\ [](view.kind = "data" =>
            \A c \in 1..Len(view.heap) : view.heap[c].kind = "map" =>
                \A i, j \in 1..Len(view.heap[c].items) :
                    view.heap[c].items[i].name = view.heap[c].items[j].name => i = j)
    /\ [][(OneCall /\ CurIs("map"))
            => IF HasKey(view.heap[view.cur], Top(log').name)
               THEN /\ Top(log').exc = "KeyError"
                    /\ view' = view
               ELSE /\ Top(log').exc = ""
                    /\ Top(view'.heap[view.cur].items).name = Top(log').name
                    /\ SubSeq(view'.heap[view.cur].items, 1, Len(CurItems)) = CurItems]_vars

\* a scope entry repeated a name of the current map
C6_Witness ==
    /\ log # <<>> /\ Top(log).exc = "KeyError" /\ Top(log).op \in EnterOps
    /\ CurIs("map") /\ Len(CurItems) >= 1

\* C9 as stated: pos is the number of bytes consumed from the active source
C9_PosIsConsumed == dec.pos = dec.stream.off

Drivers == {"qt", "jpg", "flv"}
RecordKinds == {"atom", "segment", "tag"}
\* the innermost record being decoded
Rec == ctl[CHOOSE i \in 1..Len(ctl) :
            /\ ctl[i].kind \in RecordKinds
            /\ \A j \in (i + 1)..Len(ctl) : ctl[j].kind \notin RecordKinds]
\* the sink calls made since the innermost record was begun
RecCalls == [i \in 1..(Len(log) - Rec.log0) |-> <<log[Rec.log0 + i].op, log[Rec.log0 + i].name>>]
\* the last step tried to take a record body longer than what remains
Overrun ==
    /\ driver \in Drivers
    /\ last.size > last.rem0
    /\ \/ last.op = "substream"
       \/ driver = "jpg" /\ last.op = "read"

\* C7 as stated: when the declared length of a record exceeds the bytes
\* remaining, EOFError is raised and no sink call was made for the record.
C7_Original ==
    Overrun => (last.exc = "EOFError" /\ RecCalls = <<>>)

\* C7 amended: the overrun raises EOFError, which no driver catches, so the
\* run can only fail, and only exit calls follow; by then the QuickTime
\* atom has made no sink call, the JPEG segment has entered its map and set
\* '_size', and the FLV tag has set its five header fields.
C7_TruncatedRecord ==
    /\ [](Overrun =>
            /\ last.exc = "EOFError" /\ exc = "EOFError"
            /\ driver = "qt" => RecCalls = <<>>
            /\ driver = "jpg" =>
                 RecCalls = << <<"enter_map", Rec.nm>>, <<"set", StrName("_size")>> >>
            /\ driver = "flv" =>
                 RecCalls = << <<"set", StrName("TagType")>>, <<"set", StrName("DataSize")>>,
                               <<"set", StrName("Timestamp")>>,
                               <<"set", StrName("TimestampExtended")>>,
                               <<"set", StrName("StreamID")>> >>)
    /\ [][(driver \in Drivers /\ exc = "EOFError")
            => /\ exc' = "EOFError"
               /\ status' # "done"
               /\ \A i \in (Len(log) + 1)..Len(log') : log'[i].op = "exit"]_vars

\* a JPEG segment whose declared size exceeds the file has failed the run
C7_Witness ==
    /\ driver = "jpg" /\ status = "failed" /\ exc = "EOFError"
    /\ Calls({"set"}, TRUE) = 1 /\ Calls({"exit"}, TRUE) = 1
    /\ dec.stream.off > dec.pos

\* the bytes of the active stream that have not been read
Rest == IF Remaining(dec.stream) = 0 THEN <<>>
        ELSE SubSeq(dec.stream.data, dec.stream.off + 1, Len(dec.stream.data))

ScenarioA == Atom(16, FreeAtom, Fill(8))

\* C8: in the QuickTime atom and the FLV tag, with or without a handler,
\* the step after the handler reads everything that is left of the bounded
\* region and hands it to hexdump, so a substream block that is left
\* normally has nothing unread; the 16-byte atom of unknown type with 8
\* body bytes decodes without error to one child map, and the one dump made
\* is given those 8 bytes.
C8_RemainderDumped ==
    /\ []((driver \in {"qt", "flv"} /\ last.op = "leave" /\ last.name = StrName("substream"))
            => last.rem0 = 0)
    /\ [][(At(2, "atom", "rest") \/ At(1, "tag", "dump"))
            => /\ Remaining(dec'.stream) = 0
               /\ Rest # <<>> =>
                    /\ Len(log') > Len(log)
                    /\ log'[Len(log) + 1] = Call("hexdump", NoName, "", Rest)]_vars
    /\ []((driver = "qt" /\ Ended /\ dec.stream.data = ScenarioA)
            => /\ status = "done"
               /\ Calls(EnterOps, FALSE) = 1 /\ Calls({"hexdump"}, FALSE) = 1
               /\ SubSeq(log, 1, 3) =
                     << Call("enter_map", FmtName("'%s'", 0, FreeAtom), "", <<>>),
                        Call("set", StrName("_size"), "", <<>>),
                        Call("hexdump", NoName, "", Fill(8)) >>
               /\ Top(log) = Call("exit", NoName, "", <<>>)
               /\ view.kind = "data" => Len(view.heap[1].items) = 1)

\* the run of scenario A has ended
C8_Witness ==
    /\ driver = "qt" /\ Ended /\ dec.stream.data = ScenarioA
    /\ view.kind = "data"
    /\ Len(view.heap) = 2 /\ Len(view.heap[2].items) = 2

\* C10 as stated: an atom() call that finds fewer than 8 bytes raises no
\* error and makes no sink call (it only returns False).
C10_Original ==
    (driver = "qt" /\ ctl # <<>> /\ Top(ctl).kind = "atom" /\ Top(ctl).rem0 < AtomHeader)
        => /\ exc = ""
           /\ Len(log) = Top(ctl).log0
           /\ Top(ctl).pc \in {"size", "type"}

\* the step just taken tried to read the first field of the next record of
\* the top-level source when nothing was left of it
BoundaryRead ==
    /\ driver \in Drivers
    /\ last.op = "scalar" /\ last.rem0 = 0 /\ last.depth0 = 0
    /\ \/ driver = "qt" /\ ctl # <<>> /\ Top(ctl).kind = "atoms" /\ Top(ctl).pc = "test"
       \/ driver = "jpg" /\ ctl # <<>> /\ Top(ctl).kind = "segment" /\ Top(ctl).pc = "marker"
       \/ /\ driver = "flv" /\ Len(ctl) >= 3
          /\ ctl[Len(ctl) - 2].kind = "flv_run" /\ ctl[Len(ctl) - 2].pc = "call"

\* C11 as stated: when the input is exhausted at the start of the next
\* record, the loop of run ends normally: no error is raised.
C11_Original ==
    BoundaryRead => exc = ""

\* the source the decoder was constructed on
Underlying == IF dec.stream_stack = <<>> THEN dec.stream ELSE dec.stream_stack[1][1]

\* C12 as stated: seek(p) moves the underlying source to absolute position
\* p and sets pos to p, also inside an open substream block.
C12_Original ==
    (last.op = "seek" /\ last.exc = "")
        => /\ dec.pos = last.size
           /\ Underlying.off = last.size

\* inputs in which every record is complete and declares its true length:
\* a JPEG file with one Huffman table, and a QuickTime file of two
\* atoms of the same type
WellFormedInputs ==
    {<<255, 216>> \o Dht(ht, symbols) \o <<255, 217>> : ht \in {0, 17}, symbols \in {<<>>, <<5>>}}
    \cup {Atom(AtomHeader, FreeAtom, <<>>) \o Atom(AtomHeader + k, FreeAtom, Fill(k)) :
            k \in {0, MaxBody}}

\* C13 as stated: on a well-formed input no sink call of a driver is refused
\* by the sink, the tree sink included.
C13_Original ==
    (driver \in Drivers /\ Underlying.data \in WellFormedInputs)
        => \A i \in 1..Len(log) : log[i].exc = ""

\* the source that was active before the last step, as it is now
Taken ==
    LET src == IF dec.stream.id = last.sid0 THEN dec.stream ELSE Top(dec.stream_stack)[1]
    IN  src.off - last.off0

\* C14 as stated: read(L) and substream(L) take no more than L bytes from
\* the active source, for negative L too (read() without a size is not
\* concerned: its size is None).
C14_Original ==
    (last.op = "substream" \/ (last.op = "read" /\ last.size # None))
        => Taken <= Max(last.size, 0)

====
